---- MODULE Spec2Model ----
(***************************************************************************)
(* Model of the Pi transfer bot (src/pi_transfer_script.py) and of its     *)
(* HTTP trigger (src/app.py).                                              *)
(*                                                                         *)
(* The payment platform is the environment: every request may fail, and a *)
(* payment's flags (transaction_verified, cancelled) may change between    *)
(* two requests.  Time is counted in units of 10 seconds relative to      *)
(* TARGET_DATETIME.  Amounts are counted in hundredths of a Pi.            *)
(***************************************************************************)
EXTENDS Integers, Sequences, FiniteSets, TLC

\* ------------------------------------------------------------------ bounds
\* Payment identifiers the platform can hand out (later creations fail).
MaxPayments == 2
\* Payments left on the platform by earlier runs when the bot starts.
PriorPayments == 1
\* The per-invocation counter of completePayment requests saturates here.
CountCap == 2
\* The request of get_pending_payments takes 0..MaxLatency time units; the other
\* requests are taken as instantaneous next to the sleeps between them.
MaxLatency == 1
\* The earliest start of the bot, in time units before the deadline.
EarlyStart == 33

\* ------------------------------------------------------- program constants
TRANSFER_AMOUNT == 165000
TRANSACTION_FEE == 1
REQUIRED_BALANCE == TRANSFER_AMOUNT + TRANSACTION_FEE
TARGET_DATETIME == 0
max_attempts == 60
PollSleep == 1
LongSleep == 30
ShortSleep == 6
LongWaitThreshold == 30

\* Every instant after the deadline behaves alike: the code only compares the
\* clock with TARGET_DATETIME and TARGET_DATETIME - current_time with 300 s.
TimeCap == TARGET_DATETIME + 1
Later(t, d) == IF t + d > TimeCap THEN TimeCap ELSE t + d
Latency == 0..MaxLatency

Procs == {"main", "h1", "h2"}
Handlers == {"h1", "h2"}

AllowedRecipient == "pi_allowed_recipient_address"
OtherRecipient == "pi_another_recipient_address"
Recipients == {AllowedRecipient, OtherRecipient}
AppRecipient == "pi_1abc234...yourrecipient"
Tokens == {"tokenA", "tokenB"}
NoToken == ""
NoWallet == ""
NoUid == ""
NoPayment == 0
NoBalance == -1

\* The configuration variables of lines 34..37, their defaults, and the values
\* the environment may give them; a variable may also be unset.
EnvNames == {"PI_ACCESS_TOKEN", "ALLOWED_RECIPIENT_ADDRESS", "PI_APP_ID",
             "PI_APP_SECRET"}
DefaultAccessToken == "test_access_token_here"
DefaultRecipient == "test_wallet_address_here"
DefaultAppId == "test_app_id_here"
DefaultAppSecret == "test_app_secret_here"
ShortRecipient == "pi_short_address"
MinRecipientLength == 20
AppId == "your_app_id_here"
AppSecret == "your_app_secret_here"

\* os.getenv(name, default) and os.environ[name] = value.
getenv(e, name, default) == IF name \in DOMAIN e THEN e[name] ELSE default
setenv(e, name, value) ==
    [n \in DOMAIN e \cup {name} |-> IF n = name THEN value ELSE e[n]]

\* Lines 34..37: the configuration __init__ reads.
Configuration(e) ==
    [access_token |-> getenv(e, "PI_ACCESS_TOKEN", DefaultAccessToken),
     allowed_recipient |->
        getenv(e, "ALLOWED_RECIPIENT_ADDRESS", DefaultRecipient),
     app_id |-> getenv(e, "PI_APP_ID", DefaultAppId),
     app_secret |-> getenv(e, "PI_APP_SECRET", DefaultAppSecret)]

\* Lines 59..77: _validate_configuration returns (TRUE) or raises ValueError.
validate_configuration(c) ==
    /\ c.access_token # ""
    /\ c.allowed_recipient # ""
    /\ c.app_id # ""
    /\ c.app_secret # ""
    /\ ~(c.allowed_recipient = "" \/ Len(c.allowed_recipient) < MinRecipientLength)

\* The environment of a process started with every variable set.
ScriptEnv(token) ==
    [n \in EnvNames |->
       CASE n = "PI_ACCESS_TOKEN" -> token
         [] n = "ALLOWED_RECIPIENT_ADDRESS" -> AllowedRecipient
         [] n = "PI_APP_ID" -> AppId
         [] n = "PI_APP_SECRET" -> AppSecret]

NoStatus == [ok |-> FALSE, tv |-> FALSE, dc |-> FALSE,
             cancelled |-> FALSE, user_cancelled |-> FALSE]

VARIABLES
    st,     \* per process: the bot's fields, the locals and the position
    plat,   \* the platform: payments created, their flags
    now,    \* the clock
    env,    \* os.environ: the configuration variables, shared by the process
    obs,    \* per process: what the process has requested (observation only)
    hist    \* what has been requested overall (observation only)

vars == <<st, plat, now, env, obs, hist>>

\* ------------------------------------------------------------ pure helpers
Inc(n) == IF n < CountCap THEN n + 1 ELSE CountCap
\* The counter of status requests is exact up to one past the polling bound.
IncPoll(n) == IF n > max_attempts THEN n ELSE n + 1

validate_recipient_address_open(recipient, allowed) == TRUE
validate_recipient_address(recipient, allowed) == recipient = allowed

NeedsCompletion(s) == s.tv /\ ~s.dc

WasCancelled_system_only(s) == s.cancelled
WasCancelled(s) == s.cancelled \/ s.user_cancelled

\* Lines 333..335: the workflow returns True when complete_payment succeeded.
ReturnsAfterCompletion_never(ok) == FALSE
ReturnsAfterCompletion(ok) == ok

\* Lines 333..341: what the iteration does after complete_payment returned
\* `ok` for a poll that answered `s`: return True, return False, or go on to
\* attempt += 1 and the next poll.
AfterCompletion_failure_returns(ok, s) == IF ok THEN "true" ELSE "false"
AfterCompletion(ok, s) ==
    IF ReturnsAfterCompletion(ok) THEN "true"
    ELSE IF WasCancelled(s) THEN "false"
    ELSE "continue"

\* Lines 316..318: the workflow goes on to the polling loop when
\* approve_payment returned True.
ApprovedToPoll_unchecked(ok) == TRUE
ApprovedToPoll(ok) == ok

KeepPolling_off_by_one(a) == a <= max_attempts
KeepPolling(a) == a < max_attempts

NextAttempt_stuck(a) == a
NextAttempt(a) == a + 1

SufficientBalance_strict(a) == a > REQUIRED_BALANCE
SufficientBalance(a) == a >= REQUIRED_BALANCE

is_target_time_reached(t) == t >= TARGET_DATETIME

\* ---------------------------------------------------------------- updates
Set(p, r) == st' = [st EXCEPT ![p] = r]

\* The observations follow the scheduler's process and a direct caller; the
\* requests of the HTTP handlers are not recorded.
Watched(p) == st[p].ctx # "app"
Obs(p, r) == obs' = IF Watched(p) THEN [obs EXCEPT ![p] = r] ELSE obs
Hist(p, h) == hist' = IF Watched(p) THEN h ELSE hist

\* What each poll answered is recorded for a direct call of execute_transfer.
Detail(p, o, d) ==
    IF st[p].ctx = "direct"
    THEN [o EXCEPT !.lastPoll = d.lastPoll,
                   !.verifiedBefore = d.verifiedBefore,
                   !.everVerified = d.everVerified,
                   !.completeOk = d.completeOk]
    ELSE o

FreshObs == [nCreate |-> 0, nApprove |-> 0, nPoll |-> 0, nComplete |-> 0,
             lastPoll |-> NoStatus, everVerified |-> FALSE,
             verifiedBefore |-> FALSE, completeOk |-> "none",
             fetched |-> FALSE, funded |-> FALSE, invoked |-> FALSE,
             createdId |-> NoPayment, approved |-> FALSE, asked |-> {}]

\* Lines 434..456 of run_monitoring_loop: whether the loop ends after a
\* check_and_transfer that returned `success`.
LoopExits_on_success_only(final, success) == success
LoopExits_on_any_result(final, success) == TRUE
LoopExits_on_deadline_only(final, success) == final
LoopExits(final, success) == final \/ success

\* Lines 447..456: the sleep chosen after an unsuccessful regular cycle.
ChooseSleep(current_time) ==
    IF TARGET_DATETIME - current_time > LongWaitThreshold
    THEN LongSleep ELSE ShortSleep

\* The return of check_and_transfer to its caller, followed by what the caller
\* does with the value up to its next request or sleep.
AfterCheck(p, s, success) ==
    LET r == [s EXCEPT !.result = success, !.status = NoStatus,
                       !.pending = <<>>, !.idx = 0]
    IN
    CASE s.ctx = "app" -> [r EXCEPT !.pc = "responded"]
      [] s.ctx \in {"final", "regular"} ->
            IF LoopExits(s.ctx = "final", success)
            THEN [r EXCEPT !.pc = "exit",
                           !.exit = IF success THEN "success" ELSE "final"]
            ELSE [r EXCEPT !.pc = "sleep",
                           !.sleepFor = ChooseSleep(s.current_time)]

\* The return of execute_transfer to its caller (lines 313..349); inside
\* check_and_transfer the value is passed on (lines 395..402).
AfterTransfer(p, s, success) ==
    IF s.ctx = "direct"
    THEN [s EXCEPT !.pc = "done", !.result = success, !.status = NoStatus]
    ELSE AfterCheck(p, s, success)

\* ------------------------------------------------------- execute_transfer
\* The identifier the platform gives the next payment.
NextId == Len(plat.owner) + 1

\* Step 1: create_payment, and the test of its result.
create_payment(p) ==
    /\ st[p].pc = "create"
    /\ IF ~validate_recipient_address(st[p].recipient, st[p].allowed_recipient)
       THEN \* ValueError, caught at line 269: no request is sent
            /\ Set(p, AfterTransfer(p, st[p], FALSE))
            /\ UNCHANGED <<plat, now, env, obs, hist>>
       ELSE \E ok \in BOOLEAN :
            /\ Obs(p, [obs[p] EXCEPT
                          !.nCreate = Inc(@),
                          !.createdId = IF ok /\ NextId <= MaxPayments
                                        THEN NextId ELSE @])
            /\ IF ok /\ NextId <= MaxPayments
               THEN /\ plat' = [plat EXCEPT
                                  !.owner = Append(@, st[p].access_token)]
                    /\ Hist(p, [hist EXCEPT
                                  !.createdFor = @ \cup {st[p].recipient},
                                  !.newSince = TRUE])
                    /\ Set(p, [st[p] EXCEPT !.pc = "approve",
                                            !.available = NoBalance,
                                            !.payment_id = NextId])
               ELSE /\ Hist(p, [hist EXCEPT
                                  !.createdFor = @ \cup {st[p].recipient}])
                    /\ Set(p, AfterTransfer(p, st[p], FALSE))
                    /\ UNCHANGED plat
            /\ UNCHANGED <<now, env>>

\* Step 2: approve_payment.
approve_payment(p) ==
    /\ st[p].pc = "approve"
    /\ \E ok \in BOOLEAN :
        /\ Obs(p, [obs[p] EXCEPT !.nApprove = Inc(@), !.approved = ok,
                                  !.asked = @ \cup {st[p].payment_id}])
        /\ IF ApprovedToPoll(ok)
           THEN Set(p, [st[p] EXCEPT !.pc = "poll", !.attempt = 0])
           ELSE Set(p, AfterTransfer(p, st[p], FALSE))
        /\ UNCHANGED <<plat, now, env, hist>>

\* attempt += 1; time.sleep(10); and the loop test of line 324.
EndOfAttempt(p, s) ==
    IF KeepPolling(NextAttempt(s.attempt))
    THEN [s EXCEPT !.pc = "poll", !.attempt = NextAttempt(@),
                   !.status = NoStatus]
    ELSE AfterTransfer(p, [s EXCEPT !.attempt = NextAttempt(@)], FALSE)

\* Whether the platform may cancel the payment before a poll.  The HTTP
\* handlers are run against a platform that cancels nothing: two polling
\* loops side by side are explored for every attempt pair, and every run
\* against the narrower platform is a run of the program.
Cancellations(p) == IF Watched(p) THEN BOOLEAN ELSE {FALSE}

\* Step 3: one get_payment_status of the polling loop, up to the next request.
get_payment_status(p) ==
    /\ st[p].pc = "poll"
    /\ LET id == st[p].payment_id IN
       \E ok \in BOOLEAN, v \in BOOLEAN, c \in Cancellations(p),
          uc \in BOOLEAN :
        LET tv == ok /\ (v \/ id \in plat.verified)
            cn == ok /\ (c \/ id \in plat.cancelled)
            s  == [ok |-> ok, tv |-> tv,
                   dc |-> ok /\ id \in plat.completed,
                   cancelled |-> cn /\ ~uc, user_cancelled |-> cn /\ uc]
        IN
        /\ (~ok => ~v /\ ~c /\ ~uc)
        /\ (~cn => ~uc)
        /\ plat' = [plat EXCEPT
                      !.verified = IF tv THEN @ \cup {id} ELSE @,
                      !.cancelled = IF cn THEN @ \cup {id} ELSE @]
        /\ Obs(p, Detail(p, [obs[p] EXCEPT !.nPoll = IncPoll(@),
                                            !.asked = @ \cup {id}],
                          [lastPoll |-> s,
                           verifiedBefore |-> obs[p].everVerified,
                           everVerified |-> obs[p].everVerified \/ tv,
                           completeOk |-> "none"]))
        /\ IF ok /\ NeedsCompletion(s)
           THEN /\ Set(p, [st[p] EXCEPT !.pc = "complete", !.status = s])
                /\ now' = now
           ELSE IF ok /\ WasCancelled(s)
           THEN /\ Set(p, AfterTransfer(p, st[p], FALSE))
                /\ now' = now
           ELSE /\ Set(p, EndOfAttempt(p, st[p]))
                /\ now' = Later(now, PollSleep)
        /\ UNCHANGED <<env, hist>>

\* complete_payment of line 333, and the rest of the iteration.
complete_payment(p) ==
    /\ st[p].pc = "complete"
    /\ LET id == st[p].payment_id IN
       \E ok \in BOOLEAN :
        /\ plat' = [plat EXCEPT !.completed = IF ok THEN @ \cup {id} ELSE @]
        /\ Obs(p, Detail(p, [obs[p] EXCEPT !.nComplete = Inc(@),
                                            !.asked = @ \cup {id}],
                          [lastPoll |-> obs[p].lastPoll,
                           verifiedBefore |-> obs[p].verifiedBefore,
                           everVerified |-> obs[p].everVerified,
                           completeOk |-> IF ok THEN "ok" ELSE "fail"]))
        /\ Hist(p, [hist EXCEPT
                      !.earlyComplete =
                         IF st[p].status.tv THEN @ ELSE @ \cup {id}])
        /\ CASE AfterCompletion(ok, st[p].status) = "true" ->
                  /\ Set(p, AfterTransfer(p, st[p], TRUE))
                  /\ now' = now
             [] AfterCompletion(ok, st[p].status) = "false" ->
                  /\ Set(p, AfterTransfer(p, st[p], FALSE))
                  /\ now' = now
             [] AfterCompletion(ok, st[p].status) = "continue" ->
                  /\ Set(p, EndOfAttempt(p, st[p]))
                  /\ now' = Later(now, PollSleep)
        /\ UNCHANGED env

\* ----------------------------------------------------- check_and_transfer
\* get_user_info (lines 87..116): the GET /v2/me request and what it stores.
\* kind: "fail" (no 200 or a network error: nothing is stored), and for a 200
\* the body by the fields it carries: "full" (uid and wallet_address),
\* "nowallet" (uid, no wallet_address), "empty" (the object {}, which
\* get_user_info stores and returns, and which its callers read as false).
UserInfoKinds == {"fail", "full", "nowallet", "empty"}
WalletOf(token) == "wallet_of_" \o token
UidOf(token) == "uid_of_" \o token
StoreUserInfo(s, kind) ==
    LET uid == IF kind \in {"full", "nowallet"}
               THEN UidOf(s.access_token) ELSE NoUid
        wallet == IF kind = "full"
                  THEN WalletOf(s.access_token) ELSE NoWallet
    IN IF kind = "fail" THEN s
       ELSE [s EXCEPT !.user_uid = uid, !.wallet_address = wallet]

\* Lines 381 and 422: the value of get_user_info as its callers test it.
UserInfoReturned_untested(kind) == TRUE
UserInfoReturned(kind) == kind \notin {"fail", "empty"}

\* The answers to GET /v2/me explored for a process: all of them for the
\* scheduler's process, the three that differ in what follows for a handler.
IdentityAnswers(p) ==
    IF Watched(p) THEN UserInfoKinds ELSE {"fail", "full", "nowallet"}

\* The record of the identity lookups: whether one has succeeded.
LookedUp(p, h, kind) ==
    [h EXCEPT !.established = @ \/ UserInfoReturned(kind)]

\* Line 386: check_and_transfer goes on whatever confirm_unlock returned.
ProceedsAfterSweep_when_confirmed(result) == result
ProceedsAfterSweep(result) == TRUE

\* The return of confirm_unlock with `result` (True at lines 190 and 203,
\* False at line 207), and check_and_transfer up to its next request.
EndOfSweep(p, s, result) ==
    IF ProceedsAfterSweep(result)
    THEN [s EXCEPT !.pc = "balance", !.pending = <<>>, !.idx = 0]
    ELSE AfterCheck(p, s, FALSE)

\* Lines 378..383: check_and_transfer authenticates when it has no wallet.
authenticate(p) ==
    /\ st[p].pc = "auth"
    /\ \E kind \in IdentityAnswers(p) :
        /\ IF UserInfoReturned(kind)
           THEN Set(p, [StoreUserInfo(st[p], kind) EXCEPT !.pc = "pending"])
           ELSE Set(p, AfterCheck(p, StoreUserInfo(st[p], kind), FALSE))
        /\ Hist(p, LookedUp(p, hist, kind))
        /\ UNCHANGED <<plat, now, env, obs>>

\* The entries of GET /v2/payments?status=pending as confirm_unlock reads them:
\* the identifier, the status flags, and whether reading the entry raises (an
\* entry that is no object, a status that is null).  `bad` names that entry.
PendingList(token, bad) ==
    LET mine == {i \in 1..Len(plat.owner) : plat.owner[i] = token}
        Entry(i) == [id |-> i, tv |-> i \in plat.verified,
                     dc |-> i \in plat.completed, bad |-> i = bad]
        RECURSIVE Listed(_)
        Listed(i) == IF i > Len(plat.owner) THEN <<>>
                     ELSE IF i \in mine THEN <<Entry(i)>> \o Listed(i + 1)
                     ELSE Listed(i + 1)
    IN Listed(1)

\* Line 194: the entries confirm_unlock completes.
ShouldCompletePending_all(e) == TRUE
ShouldCompletePending(e) == ~e.dc

\* The for loop of lines 193..201 from entry i on, up to its next request: the
\* index of the next entry to complete, 0 when an entry raises (line 205), and
\* Len + 1 at the end of the list.
RECURSIVE SweepFrom(_, _)
SweepFrom(list, i) ==
    IF i > Len(list) THEN i
    ELSE IF list[i].bad THEN 0
    ELSE IF ShouldCompletePending(list[i]) THEN i
    ELSE SweepFrom(list, i + 1)

\* confirm_unlock has returned.
SweepOver(list, i) == i = 0 \/ i > Len(list)
\* Its value: False when an entry raised (line 207).
SweepResult(i) == i # 0

\* Line 187: get_pending_payments, and the loop up to its first request.
get_pending_payments(p) ==
    /\ st[p].pc = "pending"
    /\ \E ok \in BOOLEAN, bad \in 0..Len(plat.owner), d \in Latency :
        LET list == IF ok THEN PendingList(st[p].access_token, bad) ELSE <<>>
            i == SweepFrom(list, 1)
        IN
        /\ (~ok => bad = 0)
        /\ now' = Later(now, d)
        /\ Hist(p, [hist EXCEPT
                      !.repeat = hist.cleanSweep /\ ~hist.newSince,
                      !.cleanSweep = ok /\ i # 0,
                      !.newSince = FALSE,
                      !.prevOk = hist.sweepOk,
                      !.sweepOk = {},
                      !.sweepSent = {},
                      !.sweepCalls = 0,
                      !.listedDone = {list[k].id : k \in
                                        {j \in 1..Len(list) : list[j].dc}},
                      !.listedOpen = {list[k].id : k \in
                                        {j \in 1..Len(list) : ~list[j].dc}}])
        /\ IF SweepOver(list, i)
           THEN Set(p, EndOfSweep(p, st[p], SweepResult(i)))
           ELSE Set(p, [st[p] EXCEPT !.pc = "sweep", !.pending = list,
                                     !.idx = i])
        /\ UNCHANGED <<plat, env, obs>>

\* Line 198: one _complete_payment of the sweep, and the loop up to the next.
confirm_unlock(p) ==
    /\ st[p].pc = "sweep"
    /\ LET e == st[p].pending[st[p].idx]
           i == SweepFrom(st[p].pending, st[p].idx + 1)
       IN
       \E ok \in BOOLEAN :
        /\ plat' = [plat EXCEPT !.completed = IF ok THEN @ \cup {e.id} ELSE @]
        /\ Hist(p, [hist EXCEPT
                      !.earlyComplete = IF e.tv THEN @ ELSE @ \cup {e.id},
                      !.cleanSweep = @ /\ i # 0,
                      !.sweepSent = @ \cup {e.id},
                      !.sweepOk = IF ok THEN @ \cup {e.id} ELSE @,
                      !.sweepCalls = @ + 1])
        /\ IF SweepOver(st[p].pending, i)
           THEN Set(p, EndOfSweep(p, st[p], SweepResult(i)))
           ELSE Set(p, [st[p] EXCEPT !.idx = i])
        /\ UNCHANGED <<now, env, obs>>

\* The balances the platform may report, around the required balance.
BalanceValues == {TRANSFER_AMOUNT, REQUIRED_BALANCE, REQUIRED_BALANCE + 1}

\* Lines 389..406: get_available_balance, the gate, and the call of
\* execute_transfer or the return of False.  Without a wallet address no
\* request is sent and the balance reads 0, as it does when the request fails.
get_available_balance(p) ==
    /\ st[p].pc = "balance"
    /\ \E ok \in BOOLEAN, b \in BalanceValues :
        LET asked == st[p].wallet_address # NoWallet
            available == IF asked /\ ok THEN b ELSE 0
        IN
        /\ (~(asked /\ ok) => ~ok /\ b = TRANSFER_AMOUNT)
        /\ Obs(p, [obs[p] EXCEPT
                      !.fetched = TRUE,
                      !.funded = available >= TRANSFER_AMOUNT + TRANSACTION_FEE,
                      !.invoked = SufficientBalance(available)])
        /\ IF SufficientBalance(available)
           THEN /\ Set(p, [st[p] EXCEPT !.pc = "create",
                                        !.available = available,
                                        !.recipient = st[p].allowed_recipient])
                /\ Hist(p, [hist EXCEPT
                              !.lateWorkflows =
                                 IF is_target_time_reached(now)
                                 THEN Inc(@) ELSE @,
                              !.finalWorkflows =
                                 IF st[p].ctx = "final" THEN Inc(@) ELSE @,
                              !.sinceSleep = Inc(@),
                              !.repeat = FALSE, !.prevOk = {},
                              !.sweepSent = {}, !.sweepCalls = 0,
                              !.listedDone = {}, !.listedOpen = {}])
           ELSE /\ Set(p, AfterCheck(p, [st[p] EXCEPT !.available = available],
                                     FALSE))
                /\ Hist(p, [hist EXCEPT
                              !.repeat = FALSE, !.prevOk = {},
                              !.sweepSent = {}, !.sweepCalls = 0,
                              !.listedDone = {}, !.listedOpen = {}])
        /\ UNCHANGED <<plat, now, env>>

\* The entry of check_and_transfer (lines 375..386) up to its first request.
EnterCheck(s, ctx) ==
    [s EXCEPT !.ctx = ctx,
              !.pc = IF s.wallet_address = NoWallet THEN "auth" ELSE "pending",
              !.available = NoBalance, !.payment_id = NoPayment,
              !.attempt = 0, !.result = FALSE]

\* Lines 34..52: the fields of a bot whose construction succeeded.
Constructed(s, c) ==
    [s EXCEPT !.access_token = c.access_token,
              !.allowed_recipient = c.allowed_recipient,
              !.wallet_address = NoWallet, !.user_uid = NoUid]

\* main(), lines 476..491: PiNetworkTransferBot() and, when it returned,
\* run_monitoring_loop; a ValueError of the constructor ends the process.
construct_bot(p) ==
    /\ st[p].pc = "init"
    /\ IF validate_configuration(Configuration(env))
       THEN Set(p, [Constructed(st[p], Configuration(env)) EXCEPT
                      !.pc = "auth0"])
       ELSE Set(p, [st[p] EXCEPT !.pc = "exit", !.exit = "configerror"])
    /\ UNCHANGED <<plat, now, env, obs, hist>>

\* ---------------------------------------------------- run_monitoring_loop
\* Lines 421..424: the initial authentication.
initial_authentication(p) ==
    /\ st[p].pc = "auth0"
    /\ \E kind \in IdentityAnswers(p) :
        /\ IF UserInfoReturned(kind)
           THEN Set(p, [StoreUserInfo(st[p], kind) EXCEPT !.pc = "cycle"])
           ELSE Set(p, [StoreUserInfo(st[p], kind) EXCEPT
                          !.pc = "exit", !.exit = "authfail"])
        /\ Hist(p, [LookedUp(p, hist, kind) EXCEPT
                      !.initialLookupFailed = kind = "fail"])
        /\ UNCHANGED <<plat, now, env, obs>>

\* Lines 426..442: the head of one cycle, up to the first request of its
\* check_and_transfer.
cycle(p) ==
    /\ st[p].pc = "cycle"
    /\ Set(p, EnterCheck([st[p] EXCEPT !.current_time = now],
                         IF is_target_time_reached(now)
                         THEN "final" ELSE "regular"))
    /\ obs' = [obs EXCEPT ![p] = FreshObs]
    /\ UNCHANGED <<plat, now, env, hist>>

\* Lines 452 and 456: time.sleep.
sleep(p) ==
    /\ st[p].pc = "sleep"
    /\ now' = Later(now, st[p].sleepFor)
    /\ Set(p, [st[p] EXCEPT !.pc = "cycle", !.sleepFor = 0])
    /\ hist' = [hist EXCEPT !.sinceSleep = 0]
    /\ UNCHANGED <<plat, env, obs>>

\* Lines 458..460: KeyboardInterrupt inside the loop's try block ends the
\* loop wherever the cycle is; the frames of the cycle are gone.
LoopPcs == {"cycle", "auth", "pending", "sweep", "balance", "create",
            "approve", "poll", "complete", "sleep"}
\* KeyboardInterrupt is no Exception: the handlers of lines 205, 269, 347 and
\* 408 (except Exception) and those of the requests (except RequestException)
\* let it pass, and it reaches line 458 from every position `pc` of the cycle.
InterruptReachesLoop_bare_except(pc) ==
    pc \notin {"create", "approve", "poll", "complete"}
InterruptReachesLoop(pc) == TRUE

keyboard_interrupt(p) ==
    /\ st[p].pc \in LoopPcs
    /\ st[p].ctx \in {"none", "final", "regular"}
    /\ IF InterruptReachesLoop(st[p].pc)
       THEN /\ Set(p, [st[p] EXCEPT
                         !.pc = "exit", !.exit = "stopped",
                         !.status = NoStatus, !.pending = <<>>, !.idx = 0,
                         !.attempt = 0, !.payment_id = NoPayment,
                         !.available = NoBalance, !.sleepFor = 0])
            /\ obs' = [obs EXCEPT ![p] = FreshObs]
       ELSE \* caught inside execute_transfer, which returns False
            /\ Set(p, AfterTransfer(p, st[p], FALSE))
            /\ obs' = obs
    /\ hist' = [hist EXCEPT !.repeat = FALSE, !.prevOk = {}, !.sweepSent = {},
                            !.sweepCalls = 0, !.listedDone = {},
                            !.listedOpen = {}, !.stoppedAt = st[p].pc]
    /\ UNCHANGED <<plat, now, env>>

\* ------------------------------------------------- app.py: handle_transfer
\* Lines 9..20: the request's token is read and written to os.environ.
receive(p) ==
    /\ st[p].pc = "request"
    /\ IF st[p].reqToken = NoToken
       THEN /\ Set(p, [st[p] EXCEPT !.pc = "responded", !.http = 400])
            /\ UNCHANGED env
       ELSE /\ Set(p, [st[p] EXCEPT !.pc = "construct"])
            /\ env' = setenv(setenv(setenv(setenv(env,
                         "PI_ACCESS_TOKEN", st[p].reqToken),
                         "ALLOWED_RECIPIENT_ADDRESS", AppRecipient),
                         "PI_APP_ID", AppId),
                         "PI_APP_SECRET", AppSecret)
    /\ UNCHANGED <<plat, now, obs, hist>>

\* Lines 23..24: PiNetworkTransferBot() reads os.environ (lines 34..37 of the
\* bot), and check_and_transfer is entered.
construct(p) ==
    /\ st[p].pc = "construct"
    /\ IF validate_configuration(Configuration(env))
       THEN Set(p, EnterCheck(Constructed(st[p], Configuration(env)), "app"))
       ELSE \* ValueError, caught at line 26
            Set(p, [st[p] EXCEPT !.pc = "responded", !.http = 500])
    /\ UNCHANGED <<plat, now, env, obs, hist>>

\* ------------------------------------------------------------------ states
IdleBot == [pc |-> "idle", ctx |-> "none",
            access_token |-> NoToken, allowed_recipient |-> AllowedRecipient,
            wallet_address |-> NoWallet, user_uid |-> NoUid,
            recipient |-> AllowedRecipient, payment_id |-> NoPayment,
            attempt |-> 0, status |-> NoStatus,
            pending |-> <<>>, idx |-> 0,
            available |-> NoBalance, result |-> FALSE,
            current_time |-> 0, sleepFor |-> 0, exit |-> "none",
            reqToken |-> NoToken, http |-> 0]

FreshHist == [createdFor |-> {}, earlyComplete |-> {},
              newSince |-> FALSE, cleanSweep |-> FALSE, repeat |-> FALSE,
              prevOk |-> {}, sweepOk |-> {}, sweepSent |-> {},
              sweepCalls |-> 0, listedDone |-> {}, listedOpen |-> {},
              lateWorkflows |-> 0, finalWorkflows |-> 0,
              established |-> FALSE, sinceSleep |-> 0,
              initialLookupFailed |-> FALSE, stoppedAt |-> "none"]

NoPayments == [owner |-> <<>>, verified |-> {}, completed |-> {},
               cancelled |-> {}]

\* One direct call execute_transfer(r, TRANSFER_AMOUNT) on a constructed bot.
InitTransfer ==
    /\ \E r \in Recipients :
         st = [p \in Procs |->
                 IF p = "main"
                 THEN [IdleBot EXCEPT !.pc = "create", !.ctx = "direct",
                                      !.access_token = "tokenA",
                                      !.recipient = r]
                 ELSE IdleBot]
    /\ plat = NoPayments
    /\ now = TARGET_DATETIME - EarlyStart
    /\ env = ScriptEnv("tokenA")
    /\ obs = [p \in Procs |-> FreshObs]
    /\ hist = FreshHist

NextTransfer ==
    \/ create_payment("main")
    \/ approve_payment("main")
    \/ get_payment_status("main")
    \/ complete_payment("main")

SpecTransfer == InitTransfer /\ [][NextTransfer]_vars

\* main(): a constructed bot starts run_monitoring_loop; the platform holds the
\* payments earlier runs left, in any state.
Init ==
    /\ st = [p \in Procs |->
               IF p = "main"
               THEN [IdleBot EXCEPT !.pc = "auth0", !.access_token = "tokenA"]
               ELSE IdleBot]
    /\ \E v \in SUBSET (1..PriorPayments), c \in SUBSET (1..PriorPayments) :
         plat = [owner |-> [i \in 1..PriorPayments |-> "tokenA"],
                 verified |-> v, completed |-> c, cancelled |-> {}]
    /\ now \in {TARGET_DATETIME - EarlyStart, TimeCap}
    /\ env = ScriptEnv("tokenA")
    /\ obs = [p \in Procs |-> FreshObs]
    /\ hist = FreshHist

Next ==
    \/ initial_authentication("main")
    \/ cycle("main")
    \/ authenticate("main")
    \/ get_pending_payments("main")
    \/ confirm_unlock("main")
    \/ get_available_balance("main")
    \/ create_payment("main")
    \/ approve_payment("main")
    \/ get_payment_status("main")
    \/ complete_payment("main")
    \/ sleep("main")
    \/ keyboard_interrupt("main")

Spec == Init /\ [][Next]_vars

\* app.py: two POST /transfer requests handled by two threads of one process.
InitApp ==
    /\ \E t1 \in {"tokenA"}, t2 \in Tokens \cup {NoToken} :
         st = [p \in Procs |->
                 IF p = "h1"
                 THEN [IdleBot EXCEPT !.pc = "request", !.ctx = "app",
                                      !.reqToken = t1]
                 ELSE IF p = "h2"
                 THEN [IdleBot EXCEPT !.pc = "request", !.ctx = "app",
                                      !.reqToken = t2]
                 ELSE IdleBot]
    /\ plat = NoPayments
    /\ now = TimeCap
    /\ env = [n \in {} |-> ""]
    /\ obs = [p \in Procs |-> FreshObs]
    /\ hist = FreshHist

handle_transfer(p) ==
    \/ receive(p)
    \/ construct(p)
    \/ authenticate(p)
    \/ get_pending_payments(p)
    \/ confirm_unlock(p)
    \/ get_available_balance(p)
    \/ create_payment(p)
    \/ approve_payment(p)
    \/ get_payment_status(p)
    \/ complete_payment(p)

NextApp == \E p \in Handlers : handle_transfer(p)

SpecApp == InitApp /\ [][NextApp]_vars

\* main() in any environment: each variable unset, empty or set, the
\* recipient also set to a short address; up to the initial authentication.
EnvValues(n) ==
    CASE n = "PI_ACCESS_TOKEN" -> {"", "tokenA"}
      [] n = "ALLOWED_RECIPIENT_ADDRESS" ->
            {"", ShortRecipient, AllowedRecipient}
      [] n = "PI_APP_ID" -> {"", AppId}
      [] n = "PI_APP_SECRET" -> {"", AppSecret}

Environments ==
    LET Values == UNION {EnvValues(n) : n \in EnvNames} IN
    UNION {{e \in [S -> Values] : \A n \in S : e[n] \in EnvValues(n)} :
             S \in SUBSET EnvNames}

InitConfig ==
    /\ st = [p \in Procs |->
               IF p = "main"
               THEN [IdleBot EXCEPT !.pc = "init", !.allowed_recipient = ""]
               ELSE IdleBot]
    /\ plat = NoPayments
    /\ now = TARGET_DATETIME - EarlyStart
    /\ env \in Environments
    /\ obs = [p \in Procs |-> FreshObs]
    /\ hist = FreshHist

NextConfig ==
    \/ construct_bot("main")
    \/ initial_authentication("main")

SpecConfig == InitConfig /\ [][NextConfig]_vars

FairSpecTransfer == InitTransfer /\ [][NextTransfer]_vars /\ WF_vars(NextTransfer)

\* ------------------------------------------------------------------ claims
WorkflowPcs == {"create", "approve", "poll", "complete"}
CheckPcs == {"auth", "pending", "sweep", "balance"} \cup WorkflowPcs
NoRequests(o) ==
    o.nCreate = 0 /\ o.nApprove = 0 /\ o.nPoll = 0 /\ o.nComplete = 0

\* C1: a call of execute_transfer with a recipient other than the allowed one
\* returns False without any create, approve, status or complete request, and
\* every create request ever sent carries the allowed recipient.
C1_RecipientGuard ==
    /\ \A p \in Procs :
         st[p].recipient # st[p].allowed_recipient =>
            /\ NoRequests(obs[p])
            /\ st[p].pc \in {"idle", "create", "done"}
            /\ st[p].pc = "done" => ~st[p].result
    /\ hist.createdFor \subseteq {st["main"].allowed_recipient}

C1_Witness ==
    /\ st["main"].recipient = OtherRecipient
    /\ st["main"].pc = "done"
    /\ ~st["main"].result

\* C2: a completePayment request is sent for a payment only if the platform
\* has reported transaction_verified for it, in the polling loop and in the
\* unlock-confirmation sweep alike.
C2_CompleteOnlyVerified == hist.earlyComplete = {}

\* C3: in a check_and_transfer cycle the workflow is invoked exactly when the
\* balance fetched in the cycle is at least amount + fee; below it (a failed
\* lookup reads 0) the cycle sends no create, approve, status or complete
\* request of a workflow and returns False.
C3_BalanceGate ==
    \A p \in Procs :
      /\ obs[p].fetched => (obs[p].invoked <=> obs[p].funded)
      /\ (st[p].ctx # "direct" /\ st[p].pc \in WorkflowPcs) =>
            obs[p].fetched /\ obs[p].funded
      /\ (st[p].ctx # "direct" /\ st[p].pc = "create") =>
            st[p].available >= TRANSFER_AMOUNT + TRANSACTION_FEE
      /\ (obs[p].fetched /\ ~obs[p].funded) =>
            /\ NoRequests(obs[p])
            /\ st[p].pc \in {"sleep", "cycle", "exit"}
            /\ ~st[p].result
            /\ st[p].available < TRANSFER_AMOUNT + TRANSACTION_FEE

C3_Witness ==
    /\ st["main"].pc = "create"
    /\ st["main"].ctx = "regular"
    /\ st["main"].available = TRANSFER_AMOUNT + TRANSACTION_FEE

\* C4: when the first poll that reports transaction_verified (poll k+1, with
\* k < 60) reports the payment not yet completed and completePayment then
\* succeeds, the workflow has polled exactly k+1 times, has called
\* completePayment exactly once, polls no more and returns True; no
\* completePayment is sent before a poll reported transaction_verified.
C4_PollingToCompletion ==
    \A p \in Procs :
      /\ (/\ ~obs[p].verifiedBefore
          /\ obs[p].lastPoll.tv /\ ~obs[p].lastPoll.dc
          /\ obs[p].completeOk = "ok") =>
            /\ st[p].pc = "done"
            /\ st[p].result
            /\ obs[p].nComplete = 1
            /\ obs[p].nPoll = st[p].attempt + 1
            /\ obs[p].nPoll <= 60
      /\ (st[p].ctx = "direct" /\ obs[p].nComplete > 0) => obs[p].everVerified

C4_Witness ==
    /\ st["main"].pc = "done"
    /\ st["main"].result
    /\ obs["main"].nPoll = 60
    /\ obs["main"].nComplete = 1
    /\ ~obs["main"].verifiedBefore

\* C5: when a poll reports cancelled or user_cancelled and no poll so far has
\* reported transaction_verified, the workflow has returned False right after
\* that poll, without any completePayment request.
C5_CancelledBeforeVerification ==
    \A p \in Procs :
      (/\ obs[p].lastPoll.cancelled \/ obs[p].lastPoll.user_cancelled
       /\ ~obs[p].everVerified) =>
            /\ st[p].pc = "done"
            /\ ~st[p].result
            /\ obs[p].nComplete = 0

C5_Witness ==
    /\ st["main"].pc = "done"
    /\ obs["main"].lastPoll.user_cancelled
    /\ ~obs["main"].everVerified
    /\ obs["main"].nPoll = 3

\* C6: an invocation of execute_transfer sends at most 60 status requests, and
\* after 60 polls that reported neither verification nor cancellation (or
\* failed) it has returned False without a completePayment request.
C6_PollingBound ==
    \A p \in Procs :
      /\ obs[p].nPoll <= 60
      /\ (/\ st[p].ctx = "direct"
          /\ obs[p].nPoll = 60
          /\ ~obs[p].everVerified
          /\ ~(obs[p].lastPoll.cancelled \/ obs[p].lastPoll.user_cancelled)) =>
            /\ st[p].pc = "done"
            /\ ~st[p].result
            /\ obs[p].nComplete = 0

C6_Witness ==
    /\ st["main"].pc = "done"
    /\ obs["main"].nPoll = 60
    /\ ~obs["main"].everVerified
    /\ ~obs["main"].lastPoll.ok
    /\ ~st["main"].result

\* C7: every invocation of execute_transfer eventually returns a boolean to
\* its caller, whatever the platform answers.
C7_ExitGuarantee ==
    <>(st["main"].pc = "done" /\ st["main"].result \in BOOLEAN)

C7_Witness ==
    /\ st["main"].pc = "done"
    /\ obs["main"].nPoll = 60
    /\ obs["main"].nComplete = CountCap
    /\ ~st["main"].result

\* C8 as stated: a cycle that starts at or past the deadline performs one
\* check_and_transfer and ends the loop without sleeping, and at most one
\* workflow is ever started after the deadline.
LateCycleEndsLoop ==
    \A p \in Procs :
      st[p].ctx = "final" =>
         /\ st[p].current_time >= TARGET_DATETIME
         /\ st[p].pc \in CheckPcs \cup {"exit"}
         /\ st[p].sleepFor = 0
         /\ (obs[p].fetched /\ ~obs[p].funded) =>
               st[p].pc = "exit" /\ st[p].exit = "final" /\ ~st[p].result

SweepSkipsCompleted ==
    /\ hist.sweepSent \cap hist.listedDone = {}
    /\ hist.sweepCalls = Cardinality(hist.sweepSent)

C9_Original ==
    /\ SweepSkipsCompleted
    /\ hist.repeat => hist.sweepSent = {}

\* C9: the sweep sends no completePayment for a listed payment whose
\* developer_completed flag is true, at most one per listed payment, and none
\* for a payment whose completePayment succeeded in the sweep before it (a
\* payment whose completePayment failed is sent one again).
C9_SweepIdempotence ==
    /\ SweepSkipsCompleted
    /\ hist.sweepSent \cap hist.prevOk = {}

C9_Witness ==
    /\ hist.repeat
    /\ hist.prevOk # {}
    /\ hist.sweepSent # {}
    /\ st["main"].pc = "balance"

\* C10: of two POST /transfer requests handled concurrently at most one has a
\* workflow in flight, and each request's bot holds the token of its request.
C10_SerializedTriggers ==
    /\ Cardinality({p \in Handlers : st[p].pc \in WorkflowPcs}) <= 1
    /\ \A p \in Handlers :
         st[p].pc \in CheckPcs => st[p].access_token = st[p].reqToken

\* C11: once an identity lookup has succeeded, user_uid and wallet_address
\* keep the values it stored and no further GET /v2/me is sent, whatever
\* fields the response carried.
C11_SessionImmutable ==
    [][hist.established =>
         /\ st'["main"].user_uid = st["main"].user_uid
         /\ st'["main"].wallet_address = st["main"].wallet_address
         /\ ~authenticate("main")]_vars

\* C12: once the session is established, whatever platform call of a cycle
\* fails, run_monitoring_loop ends only by a workflow that succeeded, by the
\* deadline branch or by an external stop; a cycle that started before the
\* deadline and returned failure is followed by a sleep of 5 minutes or of 1
\* minute and then by another cycle.
C12_PlatformFailuresContained ==
    LET s == st["main"] IN
    /\ (hist.established /\ s.pc = "exit") =>
          s.exit \in {"success", "final", "stopped"}
    /\ s.exit = "success" => s.result /\ obs["main"].nComplete >= 1
    /\ s.exit = "final" => s.ctx = "final" /\ s.current_time >= TARGET_DATETIME
    /\ (s.ctx = "regular" /\ s.pc \notin CheckPcs /\ s.exit # "stopped") =>
          \/ s.pc = "exit" /\ s.exit = "success"
          \/ /\ s.pc = "sleep" /\ ~s.result
             /\ s.sleepFor \in {LongSleep, ShortSleep}
          \/ s.pc = "cycle" /\ ~s.result

\* A cycle whose approve request failed after a create that succeeded.
C12_Witness ==
    /\ hist.established
    /\ st["main"].ctx = "regular"
    /\ st["main"].pc = "sleep"
    /\ obs["main"].nCreate = 1 /\ obs["main"].nApprove = 1
    /\ obs["main"].nPoll = 0

\* C13: when one of the four configuration variables is absent from the
\* environment, or the recipient is shorter than 20 characters, the
\* constructor fails with a configuration error: no bot exists.
Misconfigured ==
    \/ DOMAIN env # EnvNames
    \/ Len(Configuration(env).allowed_recipient) < MinRecipientLength

C13_FatalConfiguration ==
    Misconfigured =>
       /\ st["main"].pc \in {"init", "exit"}
       /\ st["main"].pc = "exit" => st["main"].exit = "configerror"
       /\ ~hist.established

C15_SchedulerReaction ==
    LET s == st["main"]
        o == obs["main"]
    IN
    /\ o.nCreate <= 1
    /\ hist.sinceSleep <= 1
    /\ s.exit = "success" => s.pc = "exit" /\ o.invoked /\ s.result
    /\ (/\ s.ctx \in {"regular", "final"} /\ o.invoked
        /\ s.pc \notin WorkflowPcs /\ s.exit # "stopped") =>
          IF s.result THEN s.pc = "exit" /\ s.exit = "success"
          ELSE IF s.ctx = "final" THEN s.pc = "exit" /\ s.exit = "final"
          ELSE \/ s.pc = "sleep" /\ s.sleepFor \in {LongSleep, ShortSleep}
               \/ s.pc = "cycle" /\ hist.sinceSleep = 0

\* The workflow of a second cycle starts after the workflow of an earlier
\* cycle created a payment and failed, and a sleep.
C15_Witness ==
    /\ st["main"].pc = "create"
    /\ st["main"].ctx = "regular"
    /\ Len(plat.owner) = PriorPayments + 1
    /\ obs["main"].nCreate = 0
    /\ hist.sinceSleep = 1

\* C16: whenever a sleep is chosen after an unsuccessful cycle, it is the
\* sleep of 5 minutes exactly when more than 5 minutes remain to the deadline
\* at that moment, and the sleep of 1 minute otherwise.
C16_SleepTracksRemainingTime ==
    st["main"].pc = "sleep" =>
       (st["main"].sleepFor = LongSleep <=>
          TARGET_DATETIME - now > LongWaitThreshold)

\* C17: whatever the sweep met (no list, an empty list, a completePayment
\* that failed, an entry that raised), check_and_transfer goes on to fetch
\* the balance and invokes the workflow when it is sufficient; and a sweep in
\* which no entry raised has sent a completePayment for every listed payment
\* that was not completed, whether or not an earlier one failed.
SweepAttemptsAll ==
    /\ hist.sweepSent \subseteq hist.listedOpen
    /\ (st["main"].pc = "balance" /\ hist.cleanSweep) =>
          hist.sweepSent = hist.listedOpen

SweepThenBalance ==
    LET s == st["main"]
        t == st'["main"]
    IN
    /\ (s.pc \in {"pending", "sweep"} /\ t.exit # "stopped") =>
          t.pc \in {"sweep", "balance"}
    /\ (s.pc = "balance" /\ t.exit # "stopped") =>
          /\ obs'["main"].fetched
          /\ obs'["main"].funded => t.pc = "create"

C17_SweepBestEffort == []SweepAttemptsAll /\ [][SweepThenBalance]_vars

\* The sweep of a cycle sent a completePayment for payment 1, which failed,
\* and then for payment 2, which succeeded; the balance was sufficient and
\* the workflow is invoked.
C17_Witness ==
    /\ st["main"].pc = "create"
    /\ hist.cleanSweep
    /\ hist.sweepOk = {2}
    /\ 1 \notin plat.completed

\* C18: within one invocation of execute_transfer, an approve request is sent
\* only after the create request returned an identifier, a status request
\* only after the approve request succeeded, a complete request only after a
\* status request, and all of them name the identifier the create request
\* returned; when create or approve fails the workflow returns False without
\* the later requests.
C18_StepOrdering ==
    \A p \in Procs :
      LET o == obs[p] IN
      st[p].ctx = "direct" =>
        /\ o.nCreate <= 1 /\ o.nApprove <= 1
        /\ o.nApprove > 0 => o.nCreate = 1 /\ o.createdId # NoPayment
        /\ o.nPoll > 0 => o.nApprove = 1 /\ o.approved
        /\ o.nComplete > 0 => o.nPoll > 0
        /\ o.asked \subseteq {o.createdId} \ {NoPayment}
        /\ (o.nCreate = 1 /\ o.createdId = NoPayment) =>
              /\ st[p].pc = "done" /\ ~st[p].result
              /\ o.nApprove = 0 /\ o.nPoll = 0 /\ o.nComplete = 0
        /\ (o.nApprove = 1 /\ ~o.approved) =>
              /\ st[p].pc = "done" /\ ~st[p].result
              /\ o.nPoll = 0 /\ o.nComplete = 0

\* The create request returned identifier 1 and the approve request for it
\* failed.
C18_Witness ==
    /\ st["main"].pc = "done"
    /\ obs["main"].createdId = 1
    /\ obs["main"].asked = {1}
    /\ obs["main"].nApprove = 1 /\ ~obs["main"].approved
    /\ ~st["main"].result

\* C19: when the identity lookup at the start of run_monitoring_loop fails,
\* the loop has ended at once: no cycle was entered, no pending-payments,
\* balance, create, approve, status or complete request was sent, and the
\* loop did not sleep.
C19_InitialAuthenticationFatal ==
    hist.initialLookupFailed =>
       /\ st["main"].pc = "exit" /\ st["main"].exit = "authfail"
       /\ st["main"].ctx = "none"
       /\ NoRequests(obs["main"]) /\ ~obs["main"].fetched
       /\ hist.sinceSleep = 0 /\ st["main"].sleepFor = 0
       /\ now \in {TARGET_DATETIME - EarlyStart, TimeCap}
       /\ ~hist.established

C19_Witness ==
    /\ hist.initialLookupFailed
    /\ st["main"].pc = "exit"
    /\ st["main"].exit = "authfail"
    /\ st["main"].wallet_address = NoWallet

\* C20: when a status poll reports cancelled or user_cancelled, the workflow
\* sends no completePayment in response to that poll, polls no more and
\* returns False, also when the same poll reports transaction_verified and
\* not developer_completed.
C20_CancelledIsTerminal ==
    \A p \in Procs :
      (st[p].ctx = "direct" /\ WasCancelled(obs[p].lastPoll)) =>
         /\ obs[p].completeOk = "none"
         /\ st[p].pc # "poll"
         /\ st[p].pc = "done" => ~st[p].result

\* C21: once a KeyboardInterrupt has arrived at any position of a cycle (a
\* sleep, the sweep, the balance check, a workflow being created, approved or
\* polled), the loop has exited as stopped, and from the signal on no create,
\* approve or complete request is sent and the platform's payments stay as
\* they were.
Stopped ==
    hist.stoppedAt # "none" =>
       st["main"].pc = "exit" /\ st["main"].exit = "stopped"

NothingSentOnceStopped ==
    hist'.stoppedAt # "none" =>
       /\ plat' = plat
       /\ ~create_payment("main") /\ ~approve_payment("main")
       /\ ~complete_payment("main") /\ ~confirm_unlock("main")

C21_CooperativeStop == []Stopped /\ [][NothingSentOnceStopped]_vars

\* The signal arrived while the workflow awaited verification: the payment
\* the run created is left neither completed nor cancelled.
C21_Witness ==
    /\ hist.stoppedAt = "poll"
    /\ st["main"].pc = "exit"
    /\ Len(plat.owner) = PriorPayments + 1
    /\ (PriorPayments + 1) \notin (plat.completed \cup plat.cancelled)

\* C22: within one run of the loop no createPayment request is sent while a
\* payment the run created earlier is neither completed nor cancelled on the
\* platform, and at most one payment created by the run is ever completed.
RunPayments == (PriorPayments + 1)..Len(plat.owner)

NoOpenRunPayment ==
    \A id \in RunPayments : id \in (plat.completed \cup plat.cancelled)

CreateRequestSent ==
    /\ create_payment("main")
    /\ validate_recipient_address(st["main"].recipient,
                                  st["main"].allowed_recipient)

C22_NoOverlappingPayments ==
    /\ [][CreateRequestSent => NoOpenRunPayment]_vars
    /\ [](Cardinality(RunPayments \cap plat.completed) <= 1)

====
